---- MODULE Spec2Model ----
(***************************************************************************)
(* cmdgen: a command-line assistant that asks a hosted model for a shell   *)
(* command, either once (--prompt) or in an interactive session (REPL).    *)
(* The model follows src/cmdgen.py: main, run_repl and its SIGINT handler, *)
(* make_api_request, trim_history, _parse_usage and update_stats.          *)
(*                                                                         *)
(* Text is a sequence of atoms.  An atom is one character ("+", "#", " ",  *)
(* the newline NL) or a word without white space ("exit", "p1", ...).      *)
(***************************************************************************)
EXTENDS Integers, Sequences, FiniteSets, TLC

VARIABLES
    pc,            \* where the process is: main, AwaitingInput, InFlight, Summarizing, OneShot, Returned, Exited
    exit_code,     \* <<>> while running, <<0>> or <<1>> once the process has ended
    interactive,   \* --interactive
    prompt,        \* --prompt: <<>> when absent, <<text>> when given
    stats_level,   \* --stats: "None", "basic" or "debug"
    max_history,   \* settings.max_history
    history_file,  \* settings.history_file on disk: [exists, text]
    history0,      \* the history file as the run found it
    transcript,    \* run_repl: transcript
    cumulative,    \* run_repl: cumulative (a mapping, empty at first)
    in_request,    \* run_repl: in_request
    last_sigint,   \* run_repl: last_sigint, in ticks
    now,           \* time.time(), in ticks
    n_calls,       \* client.responses.create calls made so far: for a turn, the summary, a prompt
    last_request,  \* the messages of the latest call
    reply,         \* the text of the latest response
    received,      \* the usage mappings of the responses received so far that carried usage
    recall,        \* run_repl: the strings session.history (the recall buffer) is filled with at its start
    step,          \* the branch of the code the latest step took
    out            \* what the latest step printed, in order

vars == <<pc, exit_code, interactive, prompt, stats_level, max_history, history_file,
          history0, transcript, cumulative, in_request, last_sigint, now, n_calls,
          last_request, reply, received, recall, step, out>>

-----------------------------------------------------------------------------
(* Bounds of the model *)

\* Turns of one session the model follows.
MaxTurns == 2
\* Largest small value configured for max_history (the default is configured too).
MaxHist == 1
\* Resolution of the clock: ticks in one second.
TicksPerSecond == 2
\* Ticks the clock may advance after the session started.
SessionTicks == 2
\* Longest history file (in atoms) of the retention specification.
MaxFileLen == 4
\* Most entries of a usage mapping of the normalizer specification.
MaxUsageKeys == 3

\* handle_sigint: "if now - last_sigint < 1" (seconds)
ExitWindow == 1
\* Settings.max_history: Field(default=1000)
DefaultMaxHistory == 1000

-----------------------------------------------------------------------------
(* Text *)

NL == "\n"

IsSpace(c) == c \in {" ", NL}

RECURSIVE lstrip(_)
lstrip(s) == IF s # <<>> /\ IsSpace(Head(s)) THEN lstrip(Tail(s)) ELSE s

RECURSIVE rstrip(_)
rstrip(s) ==
    IF s # <<>> /\ IsSpace(s[Len(s)]) THEN rstrip(SubSeq(s, 1, Len(s) - 1)) ELSE s

\* str.strip()
strip(s) == rstrip(lstrip(s))

\* Index of the first NL of s, 0 when there is none.
FirstNL(s) ==
    IF \E i \in 1..Len(s) : s[i] = NL
    THEN CHOOSE i \in 1..Len(s) : s[i] = NL /\ \A j \in 1..(i - 1) : s[j] # NL
    ELSE 0

\* str.splitlines(): the lines of s without their terminators; a final
\* terminator opens no further line.
RECURSIVE splitlines(_)
splitlines(s) ==
    IF s = <<>> THEN <<>>
    ELSE LET i == FirstNL(s)
         IN  IF i = 0 THEN <<s>>
             ELSE <<SubSeq(s, 1, i - 1)>> \o splitlines(SubSeq(s, i + 1, Len(s)))

\* str.split("\n"): the pieces between the NLs; never empty.
RECURSIVE split_nl(_)
split_nl(s) ==
    LET i == FirstNL(s)
    IN  IF i = 0 THEN <<s>>
        ELSE <<SubSeq(s, 1, i - 1)>> \o split_nl(SubSeq(s, i + 1, Len(s)))

\* "\n".join(lines)
RECURSIVE join_nl(_)
join_nl(lines) ==
    IF lines = <<>> THEN <<>>
    ELSE IF Len(lines) = 1 THEN lines[1]
    ELSE lines[1] \o <<NL>> \o join_nl(Tail(lines))

\* lines[-n:] for n >= 0 (Python: -0 is 0, so lines[-0:] is the whole list)
slice_last(lines, n) ==
    IF n = 0 THEN lines
    ELSE IF n >= Len(lines) THEN lines
    ELSE SubSeq(lines, Len(lines) - n + 1, Len(lines))

-----------------------------------------------------------------------------
(* History file *)

MissingFile == [exists |-> FALSE, text |-> <<>>]

File(text) == [exists |-> TRUE, text |-> text]

\* open(path, "a").write(text): creates the file when it is missing
append_text(file, text) == File(file.text \o text)

\* The comment line of an entry, "# <timestamp>": "T" stands for the timestamp.
CommentLine == <<"#", " ", "T">>

\* trim_history
trim_history(file, max) ==
    IF ~file.exists THEN file
    ELSE LET lines == splitlines(file.text)
         IN  IF Len(lines) > max
             THEN File(join_nl(slice_last(lines, max)) \o <<NL>>)
             ELSE file

\* "+line\n" for each line
RECURSIVE plus_lines(_)
plus_lines(lines) ==
    IF lines = <<>> THEN <<>>
    ELSE <<"+">> \o lines[1] \o <<NL>> \o plus_lines(Tail(lines))

\* session.history.append_string(prompt) on the FileHistory that main builds:
\* prompt_toolkit writes "\n# <timestamp>\n" and then "+<line>\n" for each
\* line of string.split("\n").
\* an empty string is not stored
append_string_skips_empty(file, string) ==
    IF string = <<>> THEN file
    ELSE append_text(file, <<NL>> \o CommentLine \o <<NL>> \o plus_lines(split_nl(string)))

append_string(file, string) ==
    append_text(file, <<NL>> \o CommentLine \o <<NL>> \o plus_lines(split_nl(string)))

\* run_repl: f.write(f"\n# {datetime.now().isoformat()}\n+{summary}\n")
append_summary(file, summary) ==
    append_text(file, <<NL>> \o CommentLine \o <<NL, "+">> \o summary \o <<NL>>)

\* setup_prompt_session(settings, persistent=False): the strings of the
\* in-memory history, oldest first
RECURSIVE plus_stripped(_)
plus_stripped(lines) ==
    IF lines = <<>> THEN <<>>
    ELSE IF lines[1] # <<>> /\ Head(lines[1]) = "+"
         THEN <<Tail(lines[1])>> \o plus_stripped(Tail(lines))
         ELSE plus_stripped(Tail(lines))

\* every line of the file is taken as it is
load_summaries_all_lines(file) ==
    IF file.exists THEN splitlines(file.text) ELSE <<>>

\* setup_prompt_session(settings, persistent=False): the strings given to
\* hist.append_string, in order
load_summaries(file) ==
    IF file.exists THEN plus_stripped(splitlines(file.text)) ELSE <<>>

-----------------------------------------------------------------------------
(* Usage normalizer *)

\* A value of the provider's usage mapping: an integer, None, a non-numeric
\* string, or a nested mapping, of which only its cached_tokens entry is read:
\* absent ("dict"), None ("dict_none"), a string ("dict_str"), an integer.
IntV(n) == [t |-> "int", v |-> n]
NoneV == [t |-> "none", v |-> 0]
StrV == [t |-> "str", v |-> 0]
EmptyDictV == [t |-> "dict", v |-> 0]
DictNoneV == [t |-> "dict_none", v |-> 0]
DictStrV == [t |-> "dict_str", v |-> 0]
DictV(n) == [t |-> "dict_int", v |-> n]

StatKeys == {"prompt_tokens", "completion_tokens", "cached_tokens", "total_tokens"}

\* dict.get(k, d)
get(m, k, d) == IF k \in DOMAIN m THEN m[k] ELSE d

\* the nested cached count is not read
details_cached_ignored(usage) == [ok |-> TRUE, x |-> IntV(0)]

\* usage.get("input_tokens_details", {}).get("cached_tokens", 0); a value
\* that is no mapping has no get: [ok |-> FALSE]
details_cached(usage) ==
    LET d == get(usage, "input_tokens_details", EmptyDictV)
    IN  CASE d.t = "dict" -> [ok |-> TRUE, x |-> IntV(0)]
          [] d.t = "dict_none" -> [ok |-> TRUE, x |-> NoneV]
          [] d.t = "dict_str" -> [ok |-> TRUE, x |-> StrV]
          [] d.t = "dict_int" -> [ok |-> TRUE, x |-> IntV(d.v)]
          [] OTHER -> [ok |-> FALSE, x |-> NoneV]

\* int(x or 0): None, 0 and {} are falsy; a non-numeric string or a
\* non-empty mapping makes int() raise
int_or_0(x) ==
    CASE x.t = "none" -> [ok |-> TRUE, n |-> 0]
      [] x.t = "int" -> [ok |-> TRUE, n |-> x.v]
      [] x.t = "dict" -> [ok |-> TRUE, n |-> 0]
      [] OTHER -> [ok |-> FALSE, n |-> 0]

\* _parse_usage: [ok |-> TRUE, r |-> the four counters], or [ok |-> FALSE]
\* when the code raises
_parse_usage(usage) ==
    LET p0 == get(usage, "prompt_tokens", NoneV)
        c0 == get(usage, "completion_tokens", NoneV)
        k0 == get(usage, "cached_tokens", NoneV)
        t0 == get(usage, "total_tokens", NoneV)
        p1 == IF p0.t = "none"
              THEN get(usage, "input_tokens", get(usage, "tokens", IntV(0)))
              ELSE p0
        c1 == IF c0.t = "none" THEN get(usage, "output_tokens", IntV(0)) ELSE c0
        kd == details_cached(usage)
        k1 == IF k0.t = "none" THEN kd.x ELSE k0
        t1 == IF t0.t = "none" THEN get(usage, "tokens", IntV(0)) ELSE t0
        p == int_or_0(p1)
        c == int_or_0(c1)
        k == int_or_0(k1)
        t == int_or_0(t1)
    IN  IF (k0.t = "none" /\ ~kd.ok) \/ ~p.ok \/ ~c.ok \/ ~k.ok \/ ~t.ok
        THEN [ok |-> FALSE]
        ELSE [ok |-> TRUE,
              r |-> [prompt_tokens |-> p.n, completion_tokens |-> c.n,
                     cached_tokens |-> k.n, total_tokens |-> t.n]]

\* update_stats: cumulative[k] = cumulative.get(k, 0) + v for the parsed usage
update_stats(cum, usage) ==
    LET parsed == _parse_usage(usage)
    IN  [k \in StatKeys |-> get(cum, k, 0) + parsed.r[k]]

\* The cumulative mapping as a usage mapping (its values are integers).
AsUsage(cum) == [k \in DOMAIN cum |-> IntV(cum[k])]

\* A response's usage field: None, or a mapping.
NoUsage == [present |-> FALSE, map |-> <<>>]
Usage(m) == [present |-> TRUE, map |-> m]

\* "if usage": a mapping that is there and not empty
Truthy(u) == u.present /\ DOMAIN u.map # {}

-----------------------------------------------------------------------------
(* Messages and the request gateway *)

Msg(role, content) == [role |-> role, content |-> content]

\* settings.developer_prompt
developer_prompt == <<"DEV">>

\* run_repl: "Summarize the prompt that produced the final command. ..."
SummaryInstruction == <<"SUMMARIZE">>

\* make_api_request: the messages sent for a list of messages
\* the instruction message is put after the transcript
list_messages_instruction_last(messages) == messages \o <<Msg("system", developer_prompt)>>

list_messages(messages) == <<Msg("system", developer_prompt)>> \o messages

\* make_api_request: the messages sent for a prompt string
string_messages(text) == <<Msg("developer", developer_prompt), Msg("user", text)>>

\* What the gateway may answer.  A call fails inside make_api_request
\* ("error": transport error, non-success status, a response that is no
\* APIResponse) or returns a response without output[0]["content"][0]["text"]
\* ("malformed").
FailureKinds == {"error", "malformed"}
CommandTexts == {<<"ls">>}
SummaryTexts == {<<"s1">>, <<"s1", NL, "s2">>, <<NL, "s2">>, <<>>}
UsageSamples ==
    {NoUsage,
     Usage([tokens |-> IntV(5)]),
     Usage([prompt_tokens |-> IntV(1), completion_tokens |-> IntV(2),
            total_tokens |-> IntV(3), cached_tokens |-> IntV(0)])}

-----------------------------------------------------------------------------
(* Inputs *)

\* The lines session.prompt may return.
InputLines ==
    {<<"exit">>, <<"quit">>, <<>>, <<" ">>, <<":", "stats">>, <<":", "undo">>,
     <<":", "help">>, <<":", "bogus">>, <<"p1">>, <<" ", "p2">>}

\* The values of --prompt.
Prompts == {<<>>, <<"p1">>, <<" ", "p1", NL, "p2", " ">>}

\* The history files a run may find.
InitFiles ==
    {MissingFile, File(<<"a", NL, "+", "b", NL>>)}

\* time.time() when the session starts: at least one second after the epoch.
StartTime == ExitWindow * TicksPerSecond
MaxTime == StartTime + SessionTicks

-----------------------------------------------------------------------------
(* Initial state: the process has been started with its flags. *)

NoCalls == [turn |-> 0, summary |-> 0, prompt |-> 0]

Init ==
    /\ pc = "main"
    /\ exit_code = <<>>
    /\ interactive \in BOOLEAN
    /\ prompt \in {<<>>} \cup {<<p>> : p \in Prompts}
    /\ stats_level \in {"None", "basic"}
    /\ max_history \in (0..MaxHist) \cup {DefaultMaxHistory}
    /\ history_file \in InitFiles
    /\ history0 = history_file
    /\ transcript = <<>>
    /\ cumulative = <<>>
    /\ in_request = FALSE
    /\ last_sigint = 0
    /\ now = StartTime
    /\ n_calls = NoCalls
    /\ last_request = <<>>
    /\ reply = <<>>
    /\ received = <<>>
    /\ recall = <<>>
    /\ step = "init"
    /\ out = <<>>

Flags == <<interactive, prompt, stats_level, max_history, history0, recall>>
Clock == <<last_sigint, now>>
Calls == <<n_calls, last_request>>
Answers == <<reply, received>>

\* The process ends by sys.exit(code), or by typer.Exit(code) raised out of main.
Terminate(code) ==
    /\ pc' = "Exited"
    /\ exit_code' = <<code>>

\* main returns: the process ends with code 0.
Return ==
    /\ pc' = "Returned"
    /\ exit_code' = <<0>>

\* One printed message; a statistics line carries its four counters.
P(tag) == [tag |-> tag, val |-> <<>>]
PStats(tag, counters) == [tag |-> tag, val |-> counters]

\* display_stats(usage, level): what it prints (level "debug" dumps the raw
\* mapping, which the model does not keep).
display_stats(u, level) ==
    IF ~Truthy(u) THEN <<P("stats_unavailable")>>
    ELSE IF level = "debug" THEN <<P("stats_raw")>>
    ELSE <<PStats("stats", _parse_usage(u.map).r)>>

-----------------------------------------------------------------------------
(* main *)

\* the two options are never found in conflict
usage_error_never(i, p) == FALSE

\* "if prompt and interactive:"
usage_error(i, p) == i /\ p # <<>>

\* main with --interactive and --prompt: "mutually exclusive", exit code 1
MainUsageError ==
    /\ pc = "main"
    /\ usage_error(interactive, prompt)
    /\ Terminate(1)
    /\ step' = "mutually_exclusive"
    /\ out' = <<P("error_mutually_exclusive")>>
    /\ UNCHANGED <<Flags, history_file, transcript, cumulative, in_request, Clock,
                   Calls, Answers>>

\* setting the session up creates the history file when there is none
MainInteractive_creates_file ==
    /\ pc = "main"
    /\ ~usage_error(interactive, prompt)
    /\ prompt = <<>>
    /\ interactive' = TRUE
    /\ history_file' = File(history_file.text)
    /\ recall' = load_summaries(history_file')
    /\ pc' = "AwaitingInput"
    /\ step' = "run_repl"
    /\ out' = <<>>
    /\ UNCHANGED <<exit_code, prompt, stats_level, max_history, history0, transcript,
                   cumulative, in_request, Clock, Calls, Answers>>

\* main without --prompt: interactive is set; run_repl starts, fills the
\* recall buffer of its session from the history file and reads its first line
MainInteractive ==
    /\ pc = "main"
    /\ ~usage_error(interactive, prompt)
    /\ prompt = <<>>
    /\ interactive' = TRUE
    /\ recall' = load_summaries(history_file)
    /\ pc' = "AwaitingInput"
    /\ step' = "run_repl"
    /\ out' = <<>>
    /\ UNCHANGED <<exit_code, prompt, stats_level, max_history, history0, history_file, transcript, cumulative, in_request,
                   Clock, Calls, Answers>>

\* main with --prompt alone: the prompt is stripped, appended to the history
\* and the history trimmed; an empty prompt ends with code 1, any other is sent
MainOneShot ==
    /\ pc = "main"
    /\ ~usage_error(interactive, prompt)
    /\ prompt # <<>>
    /\ LET text == strip(prompt[1])
       IN  /\ history_file' = trim_history(append_string(history_file, text), max_history)
           /\ IF text = <<>>
              THEN /\ Terminate(1)
                   /\ step' = "empty_prompt"
                   /\ out' = <<P("error_empty_prompt")>>
                   /\ UNCHANGED Calls
              ELSE /\ pc' = "OneShot"
                   /\ step' = "one_shot_request"
                   /\ out' = <<>>
                   /\ n_calls' = [n_calls EXCEPT !.prompt = @ + 1]
                   /\ last_request' = string_messages(text)
                   /\ UNCHANGED exit_code
    /\ UNCHANGED <<Flags, transcript, cumulative, in_request, Clock, Answers>>

\* The one-shot call returns a command: it is printed, and after it the
\* statistics when asked for, carried by the response and not quiet (--quiet,
\* or a standard output that is no terminal); main returns
OneShotOk ==
    /\ pc = "OneShot"
    /\ \E text \in CommandTexts, u \in UsageSamples, quiet \in BOOLEAN :
          /\ reply' = text
          /\ received' = IF u.present THEN Append(received, u.map) ELSE received
          /\ out' = <<PStats("command", text)>> \o
                    (IF stats_level # "None" /\ Truthy(u) /\ ~quiet
                     THEN display_stats(u, stats_level)
                     ELSE <<>>)
          /\ step' = "one_shot_ok"
          /\ Return
    /\ UNCHANGED <<Flags, history_file, transcript, cumulative, in_request, Clock, Calls>>

\* a failed one-shot call is made again, once
OneShotFail_retries ==
    /\ pc = "OneShot"
    /\ n_calls.prompt < 2
    /\ n_calls' = [n_calls EXCEPT !.prompt = @ + 1]
    /\ step' = "one_shot_request"
    /\ out' = <<>>
    /\ UNCHANGED <<pc, exit_code, last_request, Flags, history_file, transcript,
                   cumulative, in_request, Clock, Answers>>

\* The one-shot call fails (sys.exit(1) in make_api_request), or its response
\* has no text (the lookup raises, main answers with typer.Exit(1))
OneShotFail ==
    /\ pc = "OneShot"
    /\ \E kind \in FailureKinds :
          /\ step' = "one_shot_" \o kind
          /\ out' = <<P("error")>>
          /\ Terminate(1)
    /\ UNCHANGED <<Flags, history_file, transcript, cumulative, in_request, Clock, Calls,
                   Answers>>

\* SIGINT during the one-shot call: no handler is installed, KeyboardInterrupt
\* reaches main, which answers with typer.Exit(0)
OneShotInterrupt ==
    /\ pc = "OneShot"
    /\ step' = "one_shot_cancelled"
    /\ out' = <<P("cancelled")>>
    /\ Terminate(0)
    /\ UNCHANGED <<Flags, history_file, transcript, cumulative, in_request, Clock, Calls,
                   Answers>>

-----------------------------------------------------------------------------
(* run_repl: reading a line *)

\* The loop has ended (EOF, exit, quit).  With a transcript the summary call
\* is made; without one run_repl prints the totals, if any, and returns.
final_totals ==
    IF stats_level # "None" /\ DOMAIN cumulative # {}
    THEN <<PStats("summary_totals", _parse_usage(AsUsage(cumulative)).r)>>
    ELSE <<>>

\* the summary is asked for whatever the transcript holds
always_summarize(t) == TRUE

\* "if transcript:"
needs_summary(t) == t # <<>>

EndLoop ==
    /\ step' = "end_loop"
    /\ IF needs_summary(transcript)
       THEN /\ pc' = "Summarizing"
            /\ n_calls' = [n_calls EXCEPT !.summary = @ + 1]
            /\ last_request' =
                   list_messages(transcript \o <<Msg("user", SummaryInstruction)>>)
            /\ out' = <<>>
            /\ UNCHANGED exit_code
       ELSE /\ out' = final_totals
            /\ Return
            /\ UNCHANGED Calls
    /\ UNCHANGED <<Flags, history_file, transcript, cumulative, in_request, Clock,
                   Answers>>

\* session.prompt raises EOFError
ReadEOF ==
    /\ pc = "AwaitingInput"
    /\ EndLoop

\* exit and quit end the loop only when there is a transcript to summarize
ReadExit_needs_transcript ==
    /\ pc = "AwaitingInput"
    /\ \E line \in InputLines :
          strip(line) \in {<<"exit">>, <<"quit">>}
          /\ IF transcript # <<>>
             THEN EndLoop
             ELSE /\ step' = "empty"
                  /\ out' = <<>>
                  /\ UNCHANGED <<pc, exit_code, Flags, history_file, transcript,
                                 cumulative, in_request, Clock, Calls, Answers>>

\* text in {"exit", "quit"}
ReadExit ==
    /\ pc = "AwaitingInput"
    /\ \E line \in InputLines :
          strip(line) \in {<<"exit">>, <<"quit">>}
          /\ EndLoop

\* an empty line ends the loop
ReadEmpty_breaks ==
    /\ pc = "AwaitingInput"
    /\ \E line \in InputLines : strip(line) = <<>>
    /\ EndLoop

\* not text: the loop continues
ReadEmpty ==
    /\ pc = "AwaitingInput"
    /\ \E line \in InputLines : strip(line) = <<>>
    /\ step' = "empty"
    /\ out' = <<>>
    /\ UNCHANGED <<pc, exit_code, Flags, history_file, transcript, cumulative,
                   in_request, Clock, Calls, Answers>>

IsMeta(text) ==
    /\ text # <<>>
    /\ text \notin {<<"exit">>, <<"quit">>}
    /\ Head(text) = ":"

\* :undo pops one message only
undo_pops_one(t) ==
    IF Len(t) >= 2 THEN SubSeq(t, 1, Len(t) - 1) ELSE t

\* :undo on the transcript: transcript.pop() twice when len(transcript) >= 2
undo(t) ==
    IF Len(t) >= 2 THEN SubSeq(t, 1, Len(t) - 2) ELSE t

\* text.startswith(":"): a meta-command; the loop continues
MetaCommand ==
    /\ pc = "AwaitingInput"
    /\ \E line \in InputLines :
          LET text == strip(line)
              cmd == Tail(text)
          IN  /\ IsMeta(text)
              /\ CASE cmd = <<"stats">> ->
                        /\ step' = "stats"
                        /\ out' = display_stats(Usage(AsUsage(cumulative)),
                                       IF stats_level # "None" THEN stats_level ELSE "basic")
                        /\ UNCHANGED transcript
                   [] cmd = <<"undo">> ->
                        /\ step' = IF Len(transcript) >= 2 THEN "undo" ELSE "undo_nothing"
                        /\ out' = IF Len(transcript) >= 2 THEN <<>>
                                  ELSE <<P("warn_nothing_to_undo")>>
                        /\ transcript' = undo(transcript)
                   [] cmd = <<"help">> ->
                        /\ step' = "help"
                        /\ out' = <<P("help")>>
                        /\ UNCHANGED transcript
                   [] OTHER ->
                        /\ step' = "unknown_command"
                        /\ out' = <<P("warn_unknown_command")>>
                        /\ UNCHANGED transcript
    /\ UNCHANGED <<pc, exit_code, Flags, history_file, cumulative, in_request, Clock,
                   Calls, Answers>>

\* Any other text: the user message is appended and the gateway is called
StartTurn ==
    /\ pc = "AwaitingInput"
    /\ n_calls.turn < MaxTurns
    /\ \E line \in InputLines :
          LET text == strip(line)
          IN  /\ text # <<>>
              /\ text \notin {<<"exit">>, <<"quit">>}
              /\ ~IsMeta(text)
              /\ transcript' = Append(transcript, Msg("user", text))
              /\ last_request' = list_messages(transcript')
    /\ in_request' = TRUE
    /\ n_calls' = [n_calls EXCEPT !.turn = @ + 1]
    /\ pc' = "InFlight"
    /\ step' = "turn_request"
    /\ out' = <<>>
    /\ UNCHANGED <<exit_code, Flags, history_file, cumulative, Clock, Answers>>

-----------------------------------------------------------------------------
(* run_repl: the turn's call returns *)

\* A response counted into the statistics: "if stats_level and result.usage"
counts(u) == stats_level # "None" /\ Truthy(u)

\* The turn's call returns a command: in_request is reset, the assistant
\* message is appended, the command printed, the statistics shown and added
TurnOk ==
    /\ pc = "InFlight"
    /\ \E text \in CommandTexts, u \in UsageSamples :
          /\ reply' = text
          /\ transcript' = Append(transcript, Msg("assistant", text))
          /\ received' = IF u.present THEN Append(received, u.map) ELSE received
          /\ IF counts(u) /\ ~_parse_usage(u.map).ok
             THEN \* display_stats or update_stats raises: main ends with code 1
                  /\ Terminate(1)
                  /\ step' = "turn_stats_raise"
                  /\ out' = <<PStats("command", text), P("error")>>
                  /\ UNCHANGED cumulative
             ELSE /\ pc' = "AwaitingInput"
                  /\ step' = "turn_ok"
                  /\ out' = <<PStats("command", text)>>
                             \o (IF counts(u) THEN display_stats(u, stats_level) ELSE <<>>)
                  /\ cumulative' = IF counts(u) THEN update_stats(cumulative, u.map)
                                   ELSE cumulative
                  /\ UNCHANGED exit_code
    /\ in_request' = FALSE
    /\ UNCHANGED <<Flags, history_file, Clock, Calls>>

\* the failure ends the turn alone: the loop reads the next line
TurnFail_aborts_turn_only ==
    /\ pc = "InFlight"
    /\ \E kind \in FailureKinds :
          step' = "turn_" \o kind
    /\ out' = <<P("error")>>
    /\ in_request' = FALSE
    /\ pc' = "AwaitingInput"
    /\ UNCHANGED <<exit_code, Flags, history_file, transcript, cumulative, Clock, Calls,
                   Answers>>

\* the failure leaves run_repl without the finally clause
TurnFail_keeps_in_request ==
    /\ pc = "InFlight"
    /\ \E kind \in FailureKinds :
          step' = "turn_" \o kind
    /\ out' = <<P("error")>>
    /\ Terminate(1)
    /\ UNCHANGED <<Flags, history_file, transcript, cumulative, in_request, Clock, Calls,
                   Answers>>

\* The turn's call fails: make_api_request prints the error and calls
\* sys.exit(1); a response without text makes the lookup of line 277 raise,
\* which main answers with typer.Exit(1).  The finally clause resets in_request.
TurnFail ==
    /\ pc = "InFlight"
    /\ \E kind \in FailureKinds :
          step' = "turn_" \o kind
    /\ out' = <<P("error")>>
    /\ in_request' = FALSE
    /\ Terminate(1)
    /\ UNCHANGED <<Flags, history_file, transcript, cumulative, Clock, Calls, Answers>>

-----------------------------------------------------------------------------
(* run_repl: the interrupt handler *)

\* SIGINT is delivered while run_repl waits for a line or for the gateway.
\* In a request the handler raises KeyboardInterrupt, which leaves run_repl
\* through its finally clause and which main answers with typer.Exit(0).
\* Otherwise, less than a second after the last recorded interrupt it raises
\* typer.Exit(), a RuntimeError: out of session.prompt main catches it as an
\* Exception and raises typer.Exit(1); inside make_api_request (the summary
\* call) the except clause there catches it and calls sys.exit(1).
\* Otherwise it records the time and prints the notice.
\* the window taken to include its end
within_window_inclusive(t_now, t_last) == t_now - t_last <= ExitWindow * TicksPerSecond

\* "now - last_sigint < 1"
within_window(t_now, t_last) == t_now - t_last < ExitWindow * TicksPerSecond

handle_sigint ==
    /\ pc \in {"AwaitingInput", "InFlight", "Summarizing"}
    /\ \/ /\ in_request
          /\ in_request' = FALSE
          /\ Terminate(0)
          /\ step' = "sigint_in_request"
          /\ out' = <<>>
          /\ UNCHANGED last_sigint
       \/ /\ ~in_request
          /\ within_window(now, last_sigint)
          /\ Terminate(1)
          /\ step' = IF pc = "Summarizing" THEN "sigint_exit_in_summary" ELSE "sigint_exit"
          /\ out' = <<P("error")>>
          /\ UNCHANGED <<in_request, last_sigint>>
       \/ /\ ~in_request
          /\ ~within_window(now, last_sigint)
          /\ last_sigint' = now
          /\ step' = "sigint_notice"
          /\ out' = <<P("press_again_to_exit")>>
          /\ UNCHANGED <<pc, exit_code, in_request>>
    /\ UNCHANGED <<Flags, history_file, transcript, cumulative, now, Calls, Answers>>

\* Time passes while run_repl waits.
Tick ==
    /\ pc \in {"AwaitingInput", "InFlight", "Summarizing"}
    /\ now < MaxTime
    /\ now' = now + 1
    /\ UNCHANGED <<pc, exit_code, Flags, history_file, transcript, cumulative,
                   in_request, last_sigint, Calls, Answers, step, out>>

-----------------------------------------------------------------------------
(* run_repl: the summary call returns *)

\* The summary call returns a text: its first line is the summary; the
\* statistics are shown and added; the entry is appended to the history file
\* and the file trimmed; the totals are printed; run_repl returns.
\* A text without any line makes splitlines()[0] raise: main ends with code 1.
SummaryOk ==
    /\ pc = "Summarizing"
    /\ \E text \in SummaryTexts, u \in UsageSamples :
          LET lines == splitlines(text)
          IN  /\ reply' = text
              /\ received' = IF u.present THEN Append(received, u.map) ELSE received
              /\ IF lines = <<>> \/ (counts(u) /\ ~_parse_usage(u.map).ok)
                 THEN /\ Terminate(1)
                      /\ step' = IF lines = <<>> THEN "summary_no_line"
                                 ELSE "summary_stats_raise"
                      /\ out' = <<P("error")>>
                      /\ UNCHANGED <<cumulative, history_file>>
                 ELSE /\ cumulative' = IF counts(u) THEN update_stats(cumulative, u.map)
                                       ELSE cumulative
                      /\ history_file' =
                             trim_history(append_summary(history_file, lines[1]), max_history)
                      /\ step' = "summary_ok"
                      /\ out' = (IF counts(u) THEN display_stats(u, stats_level) ELSE <<>>)
                                \o (IF stats_level # "None" /\ DOMAIN cumulative' # {}
                                    THEN <<PStats("summary_totals",
                                                  _parse_usage(AsUsage(cumulative')).r)>>
                                    ELSE <<>>)
                      /\ Return
    /\ UNCHANGED <<Flags, transcript, in_request, Clock, Calls>>

\* The summary call fails, or its response has no text: exit code 1
SummaryFail ==
    /\ pc = "Summarizing"
    /\ \E kind \in FailureKinds :
          step' = "summary_" \o kind
    /\ out' = <<P("error")>>
    /\ Terminate(1)
    /\ UNCHANGED <<Flags, history_file, transcript, cumulative, in_request, Clock,
                   Calls, Answers>>

-----------------------------------------------------------------------------
(* The program *)

Next ==
    \/ MainUsageError
    \/ MainInteractive
    \/ MainOneShot
    \/ OneShotOk
    \/ OneShotFail
    \/ OneShotInterrupt
    \/ ReadEOF
    \/ ReadExit
    \/ ReadEmpty
    \/ MetaCommand
    \/ StartTurn
    \/ TurnOk
    \/ TurnFail
    \/ handle_sigint
    \/ Tick
    \/ SummaryOk
    \/ SummaryFail

Spec == Init /\ [][Next]_vars

\* The process is sequential and runs on: main enters run_repl; the input
\* delivers EOF, exit or quit at some time the loop reads a line; the gateway
\* answers the call of a turn and the summary call.
Fairness ==
    /\ WF_vars(MainInteractive)
    /\ SF_vars(ReadEOF \/ ReadExit)
    /\ WF_vars(TurnOk)
    /\ WF_vars(SummaryOk)

\* The interactive session alone: main started with --interactive and
\* --stats basic and no --prompt, on a history file that exists.
InitLive ==
    /\ Init
    /\ prompt = <<>>
    /\ interactive
    /\ stats_level = "basic"
    /\ history_file.exists

NextLive ==
    \/ MainInteractive
    \/ ReadEOF
    \/ ReadExit
    \/ ReadEmpty
    \/ MetaCommand
    \/ StartTurn
    \/ TurnOk
    \/ TurnFail
    \/ handle_sigint
    \/ Tick
    \/ SummaryOk
    \/ SummaryFail

SpecLive == InitLive /\ [][NextLive]_vars /\ Fairness

-----------------------------------------------------------------------------
(* Retention alone: trim_history applied to any small history file *)

FileAtoms == {"a", "+", NL}

FileTexts == UNION {[1..n -> FileAtoms] : n \in 0..MaxFileLen}

InitRetention ==
    /\ pc = "retention"
    /\ exit_code = <<>>
    /\ interactive = FALSE
    /\ prompt = <<>>
    /\ stats_level = "None"
    /\ max_history \in (0..MaxHist) \cup {DefaultMaxHistory}
    /\ history_file \in {MissingFile} \cup {File(t) : t \in FileTexts}
    /\ history0 = history_file
    /\ transcript = <<>>
    /\ cumulative = <<>>
    /\ in_request = FALSE
    /\ last_sigint = 0
    /\ now = StartTime
    /\ n_calls = NoCalls
    /\ last_request = <<>>
    /\ reply = <<>>
    /\ received = <<>>
    /\ recall = <<>>
    /\ step = "init"
    /\ out = <<>>

\* trim_history(settings)
Retention ==
    /\ pc = "retention"
    /\ history_file' = trim_history(history_file, max_history)
    /\ step' = "trim"
    /\ out' = <<>>
    /\ UNCHANGED <<pc, exit_code, Flags, transcript, cumulative, in_request, Clock,
                   Calls, Answers>>

\* setup_prompt_session(settings, persistent=False): the recall buffer is
\* filled from the history file, which is only read
Seed ==
    /\ pc = "retention"
    /\ recall' = load_summaries(history_file)
    /\ step' = "seed"
    /\ out' = <<>>
    /\ UNCHANGED <<pc, exit_code, interactive, prompt, stats_level, max_history,
                   history0, history_file, transcript, cumulative, in_request,
                   Clock, Calls, Answers>>

NextRetention ==
    \/ Retention
    \/ Seed

SpecRetention == InitRetention /\ [][NextRetention]_vars

-----------------------------------------------------------------------------
(* The normalizer alone: _parse_usage applied to any small usage mapping *)

UsageKeys ==
    {"prompt_tokens", "input_tokens", "tokens", "completion_tokens", "output_tokens",
     "cached_tokens", "input_tokens_details", "total_tokens"}

\* what a counter may hold: an integer (0, positive, negative), None, a word
CounterValues == {IntV(0), IntV(1), IntV(2), IntV(0 - 1), NoneV, StrV}

\* what input_tokens_details may hold: a mapping without or with a
\* cached_tokens entry (an integer, None, a word), None, an integer
DetailsValues == {EmptyDictV, DictV(2), DictNoneV, DictStrV, NoneV, IntV(1)}

ValuesOf(k) == IF k = "input_tokens_details" THEN DetailsValues ELSE CounterValues

UsageMappings ==
    UNION {{m \in [D -> CounterValues \cup DetailsValues] :
                \A k \in D : m[k] \in ValuesOf(k)} :
           D \in {S \in SUBSET UsageKeys : Cardinality(S) <= MaxUsageKeys}}

InitUsage ==
    /\ pc = "usage"
    /\ exit_code = <<>>
    /\ interactive = FALSE
    /\ prompt = <<>>
    /\ stats_level = "basic"
    /\ max_history = DefaultMaxHistory
    /\ history_file = MissingFile
    /\ history0 = history_file
    /\ transcript = <<>>
    /\ cumulative = <<>>
    /\ in_request = FALSE
    /\ last_sigint = 0
    /\ now = StartTime
    /\ n_calls = NoCalls
    /\ last_request = <<>>
    /\ reply = <<>>
    /\ received \in {<<m>> : m \in UsageMappings}
    /\ recall = <<>>
    /\ step = "init"
    /\ out = <<>>

\* _parse_usage(usage) on the mapping received, as update_stats calls it on
\* an empty cumulative: the four counters, or the exception it raises
ParseUsage ==
    /\ pc = "usage"
    /\ LET parsed == _parse_usage(received[1])
       IN  IF parsed.ok
           THEN /\ cumulative' = update_stats(<<>>, received[1])
                /\ step' = "parsed"
                /\ out' = <<PStats("stats", parsed.r)>>
           ELSE /\ step' = "parse_raised"
                /\ out' = <<>>
                /\ UNCHANGED cumulative
    /\ UNCHANGED <<pc, exit_code, Flags, history_file, transcript, in_request, Clock,
                   Calls, Answers>>

NextUsage == ParseUsage

SpecUsage == InitUsage /\ [][NextUsage]_vars

-----------------------------------------------------------------------------
(* Properties *)

Waiting == {"AwaitingInput", "InFlight", "Summarizing"}

\* The run is an interactive session (main was started without --prompt).
Session == prompt = <<>> /\ pc \notin {"retention", "usage"}

LastIsUser(t) == t # <<>> /\ t[Len(t)].role = "user"

\* C1: an interrupt delivered while a turn's gateway call is outstanding
\* aborts only that turn: the transcript still ends with the user message just
\* appended, no assistant message was added, and the loop is back at
\* AwaitingInput, the process still running.
C1_InterruptAbortsOnlyTurn ==
    step = "sigint_in_request" =>
        /\ pc = "AwaitingInput"
        /\ exit_code = <<>>
        /\ LastIsUser(transcript)

\* C1: what the code does there: the transcript keeps the user message and
\* gains no assistant message, but the process has ended, with code 0.
C1_Reached ==
    /\ step = "sigint_in_request"
    /\ LastIsUser(transcript)
    /\ pc = "Exited"
    /\ exit_code = <<0>>

\* C2: a gateway failure on a turn (a failed call, or a response without
\* text) aborts only that turn: no assistant message is appended, the session
\* is back at AwaitingInput and the process has not exited.
C2_GatewayFailureAbortsOnlyTurn ==
    step \in {"turn_error", "turn_malformed"} =>
        /\ pc = "AwaitingInput"
        /\ exit_code = <<>>
        /\ LastIsUser(transcript)

\* C2: what the code does there: the process has ended with code 1.
C2_Reached ==
    /\ step \in {"turn_error", "turn_malformed"}
    /\ LastIsUser(transcript)
    /\ pc = "Exited"
    /\ exit_code = <<1>>

\* C3: with no request in flight, a second interrupt less than one second
\* after an interrupt ends the process with exit code 0.
C3_DoubleInterruptExitsZero ==
    step = "sigint_exit" => (pc = "Exited" /\ exit_code = <<0>>)

\* C3: what the code does there: the process has ended with code 1,
\* whatever the transcript holds.
C3_Reached ==
    /\ step = "sigint_exit"
    /\ exit_code = <<1>>
    /\ transcript # <<>>

\* C4: an interrupt delivered while idle that is the first of the session, or
\* that comes one second or more after the last recorded one, only records
\* the current time and prints the notice: the process goes on where it was,
\* and the transcript, the cumulative usage, in_request, the history file and
\* the calls made are unchanged.
C4_SpacedIdleInterruptOnlyRecords ==
    [][(/\ handle_sigint
        /\ ~in_request
        /\ now - last_sigint >= ExitWindow * TicksPerSecond)
       => (/\ last_sigint' = now
           /\ out' = <<P("press_again_to_exit")>>
           /\ UNCHANGED <<pc, exit_code, transcript, cumulative, in_request,
                          history_file, n_calls>>)]_vars

\* C4: a spaced idle interrupt has been handled, one second or more after an
\* earlier one, in a session that holds a transcript.
C4_Witness ==
    /\ step = "sigint_notice"
    /\ pc = "AwaitingInput"
    /\ exit_code = <<>>
    /\ last_sigint = now
    /\ last_sigint > StartTime
    /\ transcript # <<>>

\* C5: after every operation that writes the history file (the one-shot
\* append and trim, the end-of-session append and trim) the file holds at
\* most max_history lines, for every max_history, 0 included.
C5_HistoryWithinRetention ==
    step \in {"one_shot_request", "empty_prompt", "summary_ok"} =>
        Len(splitlines(history_file.text)) <= max_history

\* C5: the history has been written and holds more lines than max_history.
C5_Reached ==
    /\ step \in {"one_shot_request", "empty_prompt", "summary_ok"}
    /\ max_history = 0
    /\ Len(splitlines(history_file.text)) > 0

\* The last n lines.
last_lines(lines, n) == SubSeq(lines, Len(lines) - n + 1, Len(lines))

\* C6: trim_history on a file of more than max_history lines leaves exactly
\* its last max_history lines, in order; on a shorter or a missing file it
\* changes nothing; applied again it changes nothing more.
C6_TrimKeepsLastLines ==
    step = "trim" =>
        LET lines0 == splitlines(history0.text)
        IN  /\ IF history0.exists /\ Len(lines0) > max_history
               THEN /\ history_file.exists
                    /\ splitlines(history_file.text) = last_lines(lines0, max_history)
               ELSE history_file = history0
            /\ trim_history(history_file, max_history) = history_file

\* C6: the trimmed file still holds every line although max_history is 0.
C6_Reached ==
    /\ step = "trim"
    /\ max_history = 0
    /\ splitlines(history_file.text) = splitlines(history0.text)
    /\ history0.text # <<>>

\* The four counters of a cumulative mapping, 0 for a missing one.
Counters(cum) == [k \in StatKeys |-> get(cum, k, 0)]

\* The field-wise sum of the normalized usages of a list of usage mappings.
RECURSIVE SumUsage(_)
SumUsage(us) ==
    IF us = <<>> THEN [k \in StatKeys |-> 0]
    ELSE LET rest == SumUsage(Tail(us))
             first == _parse_usage(Head(us)).r
         IN  [k \in StatKeys |-> first[k] + rest[k]]

\* C7: at every point of an interactive session the cumulative usage is the
\* field-wise sum of the normalized usage of every response received so far
\* that carried usage, whether or not a statistics level was requested.
C7_CumulativeIsSumOfReceived ==
    (Session /\ exit_code # <<1>>) => Counters(cumulative) = SumUsage(received)

\* C7: without a statistics level a response with usage has been received
\* and the cumulative usage is still empty.
C7_Reached ==
    /\ Session
    /\ stats_level = "None"
    /\ pc = "AwaitingInput"
    /\ received # <<>>
    /\ cumulative = <<>>

\* C8: :undo on a transcript of fewer than two messages leaves it unchanged
\* and prints a warning; on two or more it removes exactly the last two and
\* keeps every earlier message in order.  It makes no gateway call and leaves
\* the cumulative usage alone.
C8_UndoRemovesLastPair ==
    [][(MetaCommand /\ step' \in {"undo", "undo_nothing"})
       => (/\ Len(transcript) < 2 =>
                (transcript' = transcript /\ out' = <<P("warn_nothing_to_undo")>>)
           /\ Len(transcript) >= 2 =>
                (/\ Len(transcript') = Len(transcript) - 2
                 /\ \A i \in 1..Len(transcript') : transcript'[i] = transcript[i])
           /\ UNCHANGED <<pc, cumulative, n_calls, last_request, received>>)]_vars

\* C8: :undo has removed the last pair of a transcript of two pairs, and the
\* first pair is still there.
C8_Witness ==
    /\ step = "undo"
    /\ n_calls.turn = 2
    /\ Len(transcript) = 2
    /\ transcript[1].role = "user"
    /\ transcript[2].role = "assistant"

\* The loop of run_repl has ended.
LoopEnded ==
    \/ pc = "Summarizing"
    \/ step \in {"end_loop", "summary_ok", "summary_no_line", "summary_stats_raise",
                  "summary_error", "summary_malformed", "sigint_exit_in_summary"}

\* C9: once the loop has ended (EOF, exit, quit): with a transcript exactly
\* one further gateway call has been made, for the whole transcript followed
\* by the summarize instruction; without one no further call has been made
\* and the history file is as the run found it.  Before that no summary call
\* is made.
C9_SummaryCallIffTranscript ==
    Session =>
        IF LoopEnded
        THEN IF transcript # <<>>
             THEN /\ n_calls.summary = 1
                  /\ Tail(last_request) = transcript \o <<Msg("user", SummaryInstruction)>>
             ELSE /\ n_calls.summary = 0
                  /\ history_file = history0
        ELSE n_calls.summary = 0

\* C9: the summary call of a session of two turns is outstanding.
C9_Witness ==
    /\ Session
    /\ pc = "Summarizing"
    /\ Len(transcript) = 4
    /\ n_calls.summary = 1
    /\ Len(last_request) = 6

\* The first line of a text, empty for a text without lines.
first_line(text) == IF splitlines(text) = <<>> THEN <<>> ELSE splitlines(text)[1]

\* C10: for every text the summary call returns (one line, several, none)
\* the history file gains three lines, a blank one, the comment line and
\* "+" followed by the first line of the text, and retention is enforced
\* after that (stated for max_history of 1 and more).
C10_SummaryEntryAppended ==
    (step \in {"summary_ok", "summary_no_line"} /\ max_history > 0) =>
        LET all == splitlines(history0.text)
                     \o << <<>>, CommentLine, <<"+">> \o first_line(reply) >>
        IN  /\ history_file.exists
            /\ splitlines(history_file.text) =
                  IF Len(all) > max_history THEN last_lines(all, max_history) ELSE all

\* C10: the summary call has returned an empty text and the history file is
\* as the run found it; the process has ended with code 1.
C10_Reached ==
    /\ step = "summary_no_line"
    /\ reply = <<>>
    /\ history_file = history0
    /\ exit_code = <<1>>

-----------------------------------------------------------------------------
(* Properties of the normalizer *)

\* The mapping the normalizer was given.
usage_in == received[1]

\* The keys each counter is looked up under, in order; "details.cached" is
\* the cached_tokens entry of the input_tokens_details mapping.
Chain(k) ==
    CASE k = "prompt_tokens" -> <<"prompt_tokens", "input_tokens", "tokens">>
      [] k = "completion_tokens" -> <<"completion_tokens", "output_tokens">>
      [] k = "cached_tokens" -> <<"cached_tokens", "details.cached">>
      [] k = "total_tokens" -> <<"total_tokens", "tokens">>

Has(u, k) ==
    IF k = "details.cached"
    THEN /\ "input_tokens_details" \in DOMAIN u
         /\ u["input_tokens_details"].t \in {"dict_int", "dict_none", "dict_str"}
    ELSE k \in DOMAIN u

Val(u, k) ==
    IF k = "details.cached"
    THEN CASE u["input_tokens_details"].t = "dict_int" -> IntV(u["input_tokens_details"].v)
           [] u["input_tokens_details"].t = "dict_none" -> NoneV
           [] OTHER -> StrV
    ELSE u[k]

RECURSIVE FirstPresent(_, _)
FirstPresent(u, chain) ==
    IF chain = <<>> THEN IntV(0)
    ELSE IF Has(u, chain[1]) THEN Val(u, chain[1])
    ELSE FirstPresent(u, Tail(chain))

\* The first key of the chain counts only when its value is not None.
FirstNotNoneThenPresent(u, chain) ==
    IF Has(u, chain[1]) /\ Val(u, chain[1]).t # "none"
    THEN Val(u, chain[1])
    ELSE FirstPresent(u, Tail(chain))

AsInt(x) == IF x.t = "int" THEN x.v ELSE 0

\* Every value is an integer or None, input_tokens_details a mapping whose
\* cached_tokens, if any, is an integer or None.
Plain(u) ==
    \A k \in DOMAIN u :
        IF k = "input_tokens_details"
        THEN u[k].t \in {"dict", "dict_int", "dict_none"}
        ELSE u[k].t \in {"int", "none"}

Parsed == pc = "usage" /\ step # "init"

C19_TotalAndNonNegative ==
    Parsed =>
        /\ step = "parsed"
        /\ \A k \in StatKeys : cumulative[k] >= 0

\* C19: what the code does: an input_tokens_details of None raises, and a
\* negative count is returned as it is.
C19_Reached ==
    \/ /\ step = "parse_raised"
       /\ DOMAIN usage_in = {"input_tokens_details"}
       /\ usage_in["input_tokens_details"] = NoneV
    \/ /\ step = "parsed"
       /\ DOMAIN usage_in = {"prompt_tokens"}
       /\ cumulative["prompt_tokens"] < 0

-----------------------------------------------------------------------------
(* Properties of the recall buffer *)

PlusLine(l) == l # <<>> /\ l[1] = "+"

\* The lines of the file that start with "+", in file order, each without
\* its first atom.
SentinelLines(file) ==
    LET sel == SelectSeq(splitlines(file.text), PlusLine)
    IN  [i \in 1..Len(sel) |-> Tail(sel[i])]

\* C12: seeding the recall buffer from the history file yields, in file
\* order, exactly the lines that start with "+", each with that one leading
\* "+" removed; every other line is ignored, a missing file gives an empty
\* buffer, and the file is not modified.
C12_SeedIsSentinelLines ==
    [][step' = "seed" =>
          /\ recall' = IF history_file.exists THEN SentinelLines(history_file) ELSE <<>>
          /\ history_file' = history_file]_vars

\* C12: the file "++", "a": the buffer holds "+" alone.
C12_Witness ==
    /\ step = "seed"
    /\ history_file = File(<<"+", "+", NL, "a">>)
    /\ recall = << <<"+">> >>

-----------------------------------------------------------------------------
(* Properties of main *)

\* C13: started with both --prompt and --interactive, the process ends with
\* exit code 1 and the "mutually exclusive" message before any other effect:
\* no gateway call is made, no session is started (no transcript, no recall
\* buffer, no line read) and the history file is left as it was found.
C13_MutuallyExclusive ==
    (pc \notin {"retention", "usage"} /\ interactive /\ prompt # <<>>) =>
        /\ pc \in {"main", "Exited"}
        /\ n_calls = NoCalls
        /\ transcript = <<>>
        /\ recall = <<>>
        /\ history_file = history0
        /\ pc = "Exited" =>
              /\ step = "mutually_exclusive"
              /\ exit_code = <<1>>
              /\ out = <<P("error_mutually_exclusive")>>

\* C13: main has ended so, on a prompt that is not empty and a history
\* file that exists.
C13_Witness ==
    /\ interactive /\ prompt = << <<"p1">> >>
    /\ history0.exists
    /\ step = "mutually_exclusive"
    /\ pc = "Exited"
    /\ exit_code = <<1>>

\* The run is a one-shot run (main was started with --prompt alone).
OneShotRun == pc \notin {"retention", "usage"} /\ ~interactive /\ prompt # <<>>

\* How many times the latest step printed a record of this kind.
Printed(tag) == Cardinality({i \in DOMAIN out : out[i].tag = tag})

-----------------------------------------------------------------------------
(* Properties of the calls of a session *)

\* A gateway call has been made and has not ended yet.
Outstanding == pc \in {"InFlight", "Summarizing", "OneShot"}

\* C15 as stated: whenever a gateway call of an interactive session is
\* outstanding, the summary call included, an interrupt is handled as an
\* in-request interrupt and never by the idle rule (record the time, print
\* the notice, keep waiting; or exit on the second one).
C15_InterruptInAnyCallIsInRequest ==
    [][(handle_sigint /\ pc \in {"InFlight", "Summarizing"}) =>
          step' = "sigint_in_request"]_vars

\* C15: what the code does during the summary call: in_request is false, a
\* single interrupt only records its time and prints the notice, and the
\* call goes on.
C15_Reached ==
    /\ pc = "Summarizing"
    /\ step = "sigint_notice"
    /\ ~in_request
    /\ last_sigint = now
    /\ exit_code = <<>>
    /\ n_calls.summary = 1

\* C16: at most one gateway call is outstanding (a call is made only when
\* none is), and in_request is true exactly while a turn's call is
\* outstanding: it is false while a line is read, a meta-command dispatched,
\* the summary made and the process ended, and it is reset however the turn
\* ends (response, failure, interrupt).
C16_InRequestOnlyInFlight ==
    /\ [](pc \notin {"retention", "usage"} => (in_request <=> pc = "InFlight"))
    /\ [][n_calls' # n_calls => (~Outstanding /\ Outstanding')]_vars

\* C16: a turn has failed and in_request is false again.
C16_Witness ==
    /\ step \in {"turn_error", "turn_malformed"}
    /\ n_calls.turn = 2
    /\ pc = "Exited"
    /\ ~in_request

\* The assistant messages of a transcript.
Assistants(t) == Cardinality({i \in DOMAIN t : t[i].role = "assistant"})

\* C17: in every turn the user message is appended before the gateway is
\* called, and the gateway receives the instruction message first and then
\* the whole transcript, whose last element is that user message; an
\* assistant message is appended only by the step in which the turn's call
\* returns a response, and holds the text returned; so the transcript never
\* holds more assistant messages than turn calls have returned.
C17_UserBeforeCallAssistantAfter ==
    /\ [](pc = "InFlight" =>
            /\ LastIsUser(transcript)
            /\ Len(last_request) = Len(transcript) + 1
            /\ last_request[1].content = developer_prompt
            /\ last_request[1].role \notin {"user", "assistant"}
            /\ \A i \in DOMAIN transcript : last_request[i + 1] = transcript[i])
    /\ [](pc \notin {"retention", "usage"} =>
            Assistants(transcript) <= n_calls.turn - (IF pc = "InFlight" THEN 1 ELSE 0))
    /\ [][Assistants(transcript') > Assistants(transcript) =>
            /\ pc = "InFlight"
            /\ step' \in {"turn_ok", "turn_stats_raise"}
            /\ LastIsUser(transcript)
            /\ transcript' = Append(transcript, Msg("assistant", reply'))]_vars

\* C17: the second turn's call is outstanding: the request holds the
\* instruction and the three messages of the transcript.
C17_Witness ==
    /\ pc = "InFlight"
    /\ n_calls.turn = 2
    /\ Len(transcript) = 3
    /\ Len(last_request) = 4
    /\ transcript[2] = Msg("assistant", <<"ls">>)

\* C18: an empty or blank line and every meta-command make no gateway call,
\* leave cumulative and the history file unchanged and return to
\* AwaitingInput; of them only :undo may change the transcript.  A session in
\* which no other line was entered ends without any gateway call.
C18_MetaInputsMakeNoCall ==
    /\ [][(ReadEmpty \/ MetaCommand) =>
            /\ UNCHANGED <<n_calls, last_request, cumulative, history_file, in_request>>
            /\ pc' = "AwaitingInput"
            /\ exit_code' = <<>>
            /\ step' \in {"empty", "stats", "help", "unknown_command", "undo",
                          "undo_nothing"}
            /\ step' # "undo" => transcript' = transcript]_vars
    /\ []((pc \notin {"retention", "usage"} /\ prompt = <<>> /\ n_calls.turn = 0) =>
            (n_calls = NoCalls /\ history_file = history0))

\* C18: an unknown meta-command was entered after one turn: the transcript
\* holds its two messages, one call was made, the history file is as found.
C18_Witness ==
    /\ step = "unknown_command"
    /\ pc = "AwaitingInput"
    /\ Len(transcript) = 2
    /\ n_calls = [turn |-> 1, summary |-> 0, prompt |-> 0]
    /\ history_file = history0
    /\ history0.exists

-----------------------------------------------------------------------------
(* Properties of the statistics display *)

PrintedIn(o, tag) == Cardinality({i \in DOMAIN o : o[i].tag = tag})

\* The step receives the response of a session's call (turn or summary),
\* and the response carries usage.
ResponseWithUsage ==
    /\ pc \in {"InFlight", "Summarizing"}
    /\ received' # received

\* The step receives the response of the summary call.
SummaryResponse ==
    /\ pc = "Summarizing"
    /\ reply' \in SummaryTexts
    /\ step' \in {"summary_ok", "summary_no_line", "summary_stats_raise"}

\* C20 as stated: with a statistics level, the statistics of each response
\* that carries usage, the summary's included, are displayed exactly once and
\* its usage is added to the cumulative totals; after the summary step the
\* totals are printed exactly once if any usage was accumulated, and never
\* when none was or when no statistics level was requested.
C20_StatsOncePerResponse ==
    /\ [][(ResponseWithUsage /\ stats_level # "None") =>
            /\ PrintedIn(out', "stats") = 1
            /\ Counters(cumulative') =
                   [k \in StatKeys |-> Counters(cumulative)[k]
                        + _parse_usage(received'[Len(received')]).r[k]]]_vars
    /\ [][SummaryResponse =>
            PrintedIn(out', "summary_totals") =
                IF stats_level # "None" /\ received' # <<>> THEN 1 ELSE 0]_vars
    /\ [][(stats_level = "None" \/ received' = <<>>) =>
            (PrintedIn(out', "summary_totals") = 0 /\ PrintedIn(out', "stats") = 0)]_vars

\* C20: what the code does when the summary response has no line of text:
\* it carries usage and a statistics level was requested, but the step ends
\* the process before anything is displayed or added; no totals are printed.
C20_Reached ==
    /\ step = "summary_no_line"
    /\ stats_level = "basic"
    /\ Len(received) = 2
    /\ Counters(cumulative) = _parse_usage(received[1]).r
    /\ PrintedIn(out, "stats") = 0
    /\ PrintedIn(out, "summary_totals") = 0
    /\ exit_code = <<1>>

-----------------------------------------------------------------------------
(* Properties of the end of a session *)

\* The process has ended: main has returned, or an exit code was raised.
Ended == pc \in {"Returned", "Exited"}

\* C21: an interactive session whose input delivers EOF, exit or quit and
\* whose gateway calls return comes to its end.  EOF, exit and quit can be
\* read at every prompt and end the loop whatever the transcript holds; after
\* the loop has ended at most one more gateway call is made (the summary) and
\* the history file is written at most once, appended to and trimmed in the
\* step that returns to the caller.
C21_SessionTerminates ==
    /\ (prompt = <<>> /\ pc = "main") ~> Ended
    /\ [](pc = "AwaitingInput" => (ENABLED ReadEOF /\ ENABLED ReadExit))
    /\ [][(ReadEOF \/ ReadExit) =>
            /\ step' = "end_loop"
            /\ pc' = IF transcript = <<>> THEN "Returned" ELSE "Summarizing"
            /\ n_calls'.turn = n_calls.turn
            /\ n_calls'.summary = IF transcript = <<>> THEN 0 ELSE 1]_vars
    /\ [][(Session /\ LoopEnded) =>
            /\ n_calls' = n_calls
            /\ history_file' # history_file =>
                  /\ history_file = history0
                  /\ history_file' =
                         trim_history(append_summary(history_file, first_line(reply')),
                                      max_history)
                  /\ pc' = "Returned"]_vars

\* C21: a session of two turns has been ended by the input and has
\* returned: one summary call was made, the history file written.
C21_Witness ==
    /\ prompt = <<>>
    /\ pc = "Returned"
    /\ exit_code = <<0>>
    /\ n_calls = [turn |-> 2, summary |-> 1, prompt |-> 0]
    /\ history_file # history0

\* The transcript is a sequence of pairs: a user message, then an assistant
\* message.
Alternates(t) ==
    /\ Len(t) % 2 = 0
    /\ \A i \in DOMAIN t : t[i].role = IF i % 2 = 1 THEN "user" ELSE "assistant"

\* C22: whenever the session reads an input line, and when the loop has
\* ended and the summary is made, the transcript has even length and
\* alternates user, assistant, starting with user; so the two messages :undo
\* removes are a user message and the assistant message after it.
C22_TranscriptAlternates ==
    /\ []((pc \in {"AwaitingInput", "Summarizing"} \/ (Session /\ step = "end_loop")) =>
            Alternates(transcript))
    /\ [][(MetaCommand /\ step' = "undo") =>
            /\ Len(transcript) >= 2
            /\ transcript[Len(transcript) - 1].role = "user"
            /\ transcript[Len(transcript)].role = "assistant"
            /\ transcript' = SubSeq(transcript, 1, Len(transcript) - 2)
            /\ Alternates(transcript')]_vars

\* C22: the loop reads a line after two turns: the transcript holds user,
\* assistant, user, assistant.
C22_Witness ==
    /\ pc = "AwaitingInput"
    /\ step = "turn_ok"
    /\ Len(transcript) = 4
    /\ transcript[3].role = "user"
    /\ transcript[4].role = "assistant"

\* C23: an interactive session writes the history file only at its end,
\* after the summary call has returned: at every other point, and however
\* else the session has ended (double interrupt, interrupt in a request,
\* failure of a turn's call or of the summary call), the history file is
\* exactly as the session found it.
C23_HistoryWrittenOnlyAfterSummary ==
    Session =>
        /\ history_file # history0 =>
              /\ step = "summary_ok"
              /\ pc = "Returned"
              /\ n_calls.summary = 1
              /\ history_file =
                     trim_history(append_summary(history0, first_line(reply)), max_history)
        /\ (pc # "Returned" \/ step # "summary_ok") => history_file = history0

\* C23: the summary call has failed after a turn; the history file, which
\* existed, is as it was found.
C23_Witness ==
    /\ Session
    /\ step \in {"summary_error", "summary_malformed"}
    /\ pc = "Exited"
    /\ history0.exists
    /\ history_file = history0

\* The lines of a prompt as they stand in the history file: each after a
\* "+" and ended by a newline.
RECURSIVE SentinelText(_)
SentinelText(lines) ==
    IF lines = <<>> THEN <<>>
    ELSE <<"+">> \o Head(lines) \o <<NL>> \o SentinelText(Tail(lines))

\* The history file found, with the entry of the prompt after it: an empty
\* line, the comment line with the time, the lines of the prompt.
WithPromptEntry(file, text) ==
    [exists |-> TRUE,
     text |-> file.text \o <<NL, "#", " ", "T", NL>> \o SentinelText(split_nl(text))]

\* C24: in a one-shot run that has passed the validation of the options,
\* the stripped prompt is appended to the history file and the file trimmed
\* before the prompt is tested for emptiness and before the gateway is
\* called: the file holds the entry while the call is outstanding and at
\* every end of the run, the call having succeeded, failed, been
\* interrupted, or never been made because the prompt is empty.
C24_OneShotAppendsFirst ==
    (OneShotRun /\ pc # "main") =>
        /\ history_file.exists
        /\ history_file =
               trim_history(WithPromptEntry(history0, strip(prompt[1])), max_history)
        /\ max_history = DefaultMaxHistory =>
               history_file = WithPromptEntry(history0, strip(prompt[1]))

\* C24: the prompt was empty: no call was made, the run has ended with
\* code 1, and the history file holds the entry of the empty prompt.
C24_Witness ==
    /\ OneShotRun
    /\ step = "empty_prompt"
    /\ n_calls = NoCalls
    /\ exit_code = <<1>>
    /\ max_history = DefaultMaxHistory
    /\ history_file.text = history0.text \o <<NL, "#", " ", "T", NL, "+", NL>>

====
